---- MODULE Spec2Model ----
(***************************************************************************)
(* jconvert: JSON folder -> JSONL converter.                               *)
(* Model of the pipeline orchestrator (src/src/main.rs), the per-file      *)
(* processor's outcome classification (src/src/processor.rs) and the       *)
(* Statistics counters (src/src/stats.rs).                                 *)
(***************************************************************************)
EXTENDS Integers, Sequences, FiniteSets, TLC

VARIABLES
    args,        \* cli::Args: mode, dry_run, validate_only, log
    pc,          \* position of main / run_validation_mode / run_conversion_mode
    ret,         \* what main returned: "none" while running, "Ok", "Err"
    err,         \* the failure that made main return Err ("" otherwise)
    pool,        \* size of the rayon pool (0 until it is known)
    dir,         \* the walker's entries, in walk order (kind of each path)
    json_files,  \* Vec<PathBuf> of collect_json_files (paths = indices of dir)
    stats,       \* Statistics
    task,        \* per element of json_files: state of its parallel closure
    invoked,     \* per path of dir: number of process_file invocations
    results,     \* per element of json_files: its ProcessResult (<<>> = not yet)
    errors,      \* the failure list, Vec<(PathBuf, String)>
    next_i,      \* index of the next result of the `for result in results` loop
    dest,        \* the output destination on disk
    wbuf,        \* bytes held by the BufWriter, not yet in dest
    atOpen,      \* content of dest found by open_output_file (history)
    calls,       \* functions and dest system calls main has made (history)
    touched,     \* another process created/replaced dest during processing
    logFile,     \* the error log: <<>> = not written, else <<entries>>
    report,      \* counters read by the summary (<<>> = not yet read)
    fin,         \* input of the library function under test (<<>> in a run)
    fout,        \* what the function under test returned (<<>> = not yet)
    thr          \* threads updating a shared Statistics (<<>> in a run)

vars == <<args, pc, ret, err, pool, dir, json_files, stats, task, invoked,
          results, errors, next_i, dest, wbuf, atOpen, calls, touched,
          logFile, report, fin, fout, thr>>

\* state of the function-level specifications; a run of main leaves it alone
aux == <<fin, fout, thr>>

----------------------------------------------------------------------------
(* Bounds *)
MaxFiles == 3      \* entries the directory walker yields
MaxThreads == 2    \* worker-pool size

----------------------------------------------------------------------------
(* The files of the input tree.  A kind says what the file system answers  *)
(* for a path: whether collect_json_files keeps it, whether File::open     *)
(* succeeds and whether the bytes parse.                                   *)
Kinds == {"ok", "unopenable", "malformed", "other"}

IsJson(k) == k # "other"
Opens(k) == k \in {"ok", "malformed"}
Parses(k) == k = "ok"
\* files differ in size: path p holds p + 1 bytes and serializes to p bytes
FileSize(p) == p + 1
LineLen(p) == p

Dirs == UNION {[1..n -> Kinds] : n \in 0..MaxFiles}

RECURSIVE SumSeq(_)
SumSeq(s) == IF s = <<>> THEN 0 ELSE Head(s) + SumSeq(Tail(s))

Range(s) == {s[i] : i \in DOMAIN s}

----------------------------------------------------------------------------
(* Output bytes.  A chunk is the body of a line or its newline; src is the *)
(* path whose line it is, 0 for content that was in dest before the run    *)
(* and -1 for content another process put there.                           *)
Body(p, n) == [src |-> p, k |-> "body", len |-> n]
Newline(p) == [src |-> p, k |-> "nl", len |-> 1]
Line(p, n) == <<Body(p, n), Newline(p)>>
PriorContent == Line(0, 1)
ForeignContent == Line(-1, 1)
Bytes(chunks) == SumSeq([i \in DOMAIN chunks |-> chunks[i].len])

----------------------------------------------------------------------------
(* processor.rs *)

\* ProcessResult::success / failure / valid; Option is a sequence of length <= 1
success(path, json_line, file_size) ==
    [path |-> path, json_line |-> <<json_line>>, error |-> <<>>,
     file_size |-> file_size, is_valid |-> TRUE]

\* variant: a failure is reported as valid
failure_valid(path, error, file_size) ==
    [path |-> path, json_line |-> <<>>, error |-> <<error>>,
     file_size |-> file_size, is_valid |-> TRUE]

failure(path, error, file_size) ==
    [path |-> path, json_line |-> <<>>, error |-> <<error>>,
     file_size |-> file_size, is_valid |-> FALSE]
valid(path, file_size) ==
    [path |-> path, json_line |-> <<>>, error |-> <<>>,
     file_size |-> file_size, is_valid |-> TRUE]

\* process_file_internal: Result<String>; the string is its byte length
process_file_internal(path, k, validate_only) ==
    IF ~Opens(k) THEN [ok |-> FALSE, e |-> "FileOpenError", line |-> 0]
    ELSE IF ~Parses(k) THEN [ok |-> FALSE, e |-> "ParseError", line |-> 0]
    ELSE IF validate_only THEN [ok |-> TRUE, e |-> "", line |-> 0]
    ELSE [ok |-> TRUE, e |-> "", line |-> LineLen(path)]

process_file(path, k, validate_only) ==
    LET file_size == FileSize(path)
        r == process_file_internal(path, k, validate_only)
    IN  IF r.ok
        THEN IF validate_only THEN valid(path, file_size)
             ELSE success(path, r.line, file_size)
        ELSE failure(path, r.e, file_size)

----------------------------------------------------------------------------
(* stats.rs: every update is one atomic fetch_add *)
NewStatistics(total_files) ==
    [total_files |-> total_files, success_count |-> 0, error_count |-> 0,
     total_bytes_read |-> 0, total_bytes_written |-> 0, validation_failed |-> 0]
increment_success(s) == [s EXCEPT !.success_count = @ + 1]
increment_error(s) == [s EXCEPT !.error_count = @ + 1]
increment_validation_failed(s) == [s EXCEPT !.validation_failed = @ + 1]
add_bytes_read(s, bytes) == [s EXCEPT !.total_bytes_read = @ + bytes]
add_bytes_written(s, bytes) == [s EXCEPT !.total_bytes_written = @ + bytes]

----------------------------------------------------------------------------
Init ==
    /\ args \in [mode : {"Overwrite", "Append", "Error"},
                 dry_run : BOOLEAN, validate_only : BOOLEAN,
                 log : BOOLEAN]
    /\ pc = "threads"
    /\ ret = "none"
    /\ err = ""
    /\ pool = 0
    /\ dir = <<>>
    /\ json_files = <<>>
    /\ stats = NewStatistics(0)
    /\ task = <<>>
    /\ invoked = <<>>
    /\ results = <<>>
    /\ errors = <<>>
    /\ next_i = 1
    /\ dest \in {[exists |-> FALSE, content |-> <<>>],
                 [exists |-> TRUE, content |-> PriorContent]}
    /\ wbuf = <<>>
    /\ atOpen = <<>>
    /\ calls = {}
    /\ touched = FALSE
    /\ logFile = <<>>
    /\ report = <<>>
    /\ fin = <<>>
    /\ fout = <<>>
    /\ thr = <<>>

\* `return Err(..)` / `?` out of main
Fail(e) == /\ pc' = "done"
           /\ ret' = "Err"
           /\ err' = e
\* `return Ok(())`
Succeed == /\ pc' = "done"
           /\ ret' = "Ok"
           /\ err' = err
Goto(l) == /\ pc' = l
           /\ UNCHANGED <<ret, err>>

\* main: rayon::ThreadPoolBuilder ... build_global(); threads = 0 is None,
\* and the default pool has as many workers as the machine offers
BuildThreadPool ==
    /\ pc = "threads"
    /\ \E threads \in 0..MaxThreads :
          \/ /\ threads # 0
             /\ \/ /\ pool' = threads
                   /\ Goto("validate_input")
                \/ /\ pool' = pool
                   /\ Fail("ThreadPool")
          \/ /\ threads = 0
             /\ \E n \in 1..MaxThreads : pool' = n
             /\ Goto("validate_input")
    /\ UNCHANGED <<args, dir, json_files, stats, task, invoked, results,
                   errors, next_i, dest, wbuf, atOpen, calls, touched,
                   logFile, report>>
    /\ UNCHANGED aux

\* main: validate_input(&args)?
ValidateInput ==
    /\ pc = "validate_input"
    /\ \E input \in {"dir", "file", "missing"} :
          CASE input = "missing" -> Fail("InputNotFound")
            [] input = "file" -> Fail("NotADirectory")
            [] OTHER -> Goto("pattern")
    /\ UNCHANGED <<args, pool, dir, json_files, stats, task, invoked, results,
                   errors, next_i, dest, wbuf, atOpen, calls, touched,
                   logFile, report>>
    /\ UNCHANGED aux

\* variant: the pattern is compiled only after the tree has been walked
NewPatternMatcher_late ==
    /\ pc = "pattern"
    /\ \E pattern \in {"none", "valid", "invalid"} :
          IF pattern = "invalid"
          THEN Fail("InvalidPattern") /\ calls' = calls \cup {"collect_json_files"}
          ELSE Goto("collect") /\ calls' = calls
    /\ UNCHANGED <<args, pool, dir, json_files, stats, task, invoked, results,
                   errors, next_i, dest, wbuf, atOpen, touched,
                   logFile, report>>
    /\ UNCHANGED aux

\* main: PatternMatcher::new(args.pattern.clone())?
NewPatternMatcher ==
    /\ pc = "pattern"
    /\ \E pattern \in {"none", "valid", "invalid"} :
          IF pattern = "invalid" THEN Fail("InvalidPattern")
          ELSE Goto("collect")
    /\ UNCHANGED <<args, pool, dir, json_files, stats, task, invoked, results,
                   errors, next_i, dest, wbuf, atOpen, calls, touched,
                   logFile, report>>
    /\ UNCHANGED aux

\* collect_json_files: the walker's entries that pass the filters, in order
collect_json_files(d) == SelectSeq([i \in DOMAIN d |-> i], LAMBDA i : IsJson(d[i]))

\* variant: the empty list is not returned on
AfterCollect_always(files) ==
    Goto("mode") /\ stats' = NewStatistics(Len(files))

\* main: `if json_files.is_empty() { return Ok(()) }`, else Statistics::new
AfterCollect(files) ==
    IF files = <<>>
    THEN Succeed /\ stats' = stats
    ELSE Goto("mode") /\ stats' = NewStatistics(Len(files))

\* main: collect_json_files, the is_empty() return, Statistics::new
CollectJsonFiles ==
    /\ pc = "collect"
    /\ calls' = calls \cup {"collect_json_files"}
    /\ \E d \in Dirs :
          LET files == collect_json_files(d)
          IN  /\ dir' = d
              /\ json_files' = files
              /\ invoked' = [i \in DOMAIN d |-> 0]
              /\ task' = [i \in DOMAIN files |-> "todo"]
              /\ results' = [i \in DOMAIN files |-> <<>>]
              /\ AfterCollect(files)
    /\ UNCHANGED <<args, pool, errors, next_i, dest, wbuf, atOpen,
                   touched, logFile, report>>
    /\ UNCHANGED aux

\* variant: validate_only is tested before dry_run
ModeOf_validate_first(a) == IF a.validate_only THEN "validate_only"
                            ELSE IF a.dry_run THEN "dry_run"
                            ELSE "convert"

\* main: the order of the `if args.dry_run` / `if args.validate_only` tests
ModeOf(a) == IF a.dry_run THEN "dry_run"
             ELSE IF a.validate_only THEN "validate_only"
             ELSE "convert"

\* variant: the dry run also writes the error log
DryRun_log ==
    /\ pc = "mode"
    /\ ModeOf(args) = "dry_run"
    /\ calls' = calls \cup {"print_dry_run"}
    /\ logFile' = IF args.log THEN <<errors>> ELSE logFile
    /\ Succeed
    /\ UNCHANGED <<args, pool, dir, json_files, stats, task, invoked, results,
                   errors, next_i, dest, wbuf, atOpen, touched, report>>
    /\ UNCHANGED aux

\* main: print_dry_run(&json_files); return Ok(())
DryRun ==
    /\ pc = "mode"
    /\ ModeOf(args) = "dry_run"
    /\ calls' = calls \cup {"print_dry_run"}
    /\ Succeed
    /\ UNCHANGED <<args, pool, dir, json_files, stats, task, invoked, results,
                   errors, next_i, dest, wbuf, atOpen, touched, logFile,
                   report>>
    /\ UNCHANGED aux

----------------------------------------------------------------------------
(* The parallel iterator: a closure runs on a free worker of the pool.     *)
Active == {i \in DOMAIN task : task[i] \notin {"todo", "done"}}

\* variant: an item that has been processed can be handed out again
StartTask_again(i) ==
    /\ task[i] \in {"todo", "done"}
    /\ invoked[json_files[i]] < 2
    /\ Cardinality(Active) < pool
    /\ task' = [task EXCEPT ![i] = "running"]
    /\ invoked' = [invoked EXCEPT ![json_files[i]] = @ + 1]

\* a worker picks the next item and calls process_file(path, &options)
StartTask(i) ==
    /\ task[i] = "todo"
    /\ Cardinality(Active) < pool
    /\ task' = [task EXCEPT ![i] = "running"]
    /\ invoked' = [invoked EXCEPT ![json_files[i]] = @ + 1]

\* the ProcessResult process_file returns for item i
ResultOf(i, validate_only) ==
    process_file(json_files[i], dir[json_files[i]], validate_only)

----------------------------------------------------------------------------
(* run_validation_mode *)

EnterValidation ==
    /\ pc = "mode"
    /\ ModeOf(args) = "validate_only"
    /\ calls' = calls \cup {"run_validation_mode"}
    /\ Goto("val_par")
    /\ UNCHANGED <<args, pool, dir, json_files, stats, task, invoked, results,
                   errors, next_i, dest, wbuf, atOpen, touched, logFile,
                   report>>
    /\ UNCHANGED aux

ValStart(i) ==
    /\ pc = "val_par"
    /\ StartTask(i)
    /\ UNCHANGED <<args, pc, ret, err, pool, dir, json_files, stats, results,
                   errors, next_i, dest, wbuf, atOpen, calls, touched,
                   logFile, report>>
    /\ UNCHANGED aux

\* variant: an invalid file is left uncounted
ValCounted_dropfail(s, r) == IF r.is_valid THEN increment_success(s) ELSE s

\* the closure's first counter update
ValCounted(s, r) == IF r.is_valid THEN increment_success(s)
                    ELSE increment_validation_failed(s)

\* process_file returns (a step local to the worker) and the closure makes
\* its first update of the shared counters
ValCount(i) ==
    /\ pc = "val_par"
    /\ task[i] = "running"
    /\ results' = [results EXCEPT ![i] = <<ResultOf(i, TRUE)>>]
    /\ stats' = ValCounted(stats, ResultOf(i, TRUE))
    /\ task' = [task EXCEPT ![i] = "counted"]
    /\ UNCHANGED <<args, pc, ret, err, pool, dir, json_files, invoked,
                   errors, next_i, dest, wbuf, atOpen, calls,
                   touched, logFile, report>>
    /\ UNCHANGED aux

\* variant: the push is not protected, an entry pushed meanwhile is lost
PushError_unlocked(es, r) ==
    IF r.error # <<>> THEN <<<<r.path, r.error[1]>>>> ELSE es

\* the failure list after errors.lock().unwrap().push(..) for result r
PushError(es, r) == IF r.error # <<>> THEN Append(es, <<r.path, r.error[1]>>)
                    ELSE es

\* the closure's second step: add_bytes_read, or the push under the mutex
ValFinish(i) ==
    /\ pc = "val_par"
    /\ task[i] = "counted"
    /\ LET r == results[i][1]
       IN  IF r.is_valid
           THEN /\ stats' = add_bytes_read(stats, r.file_size)
                /\ errors' = errors
           ELSE /\ stats' = stats
                /\ errors' = PushError(errors, r)
    /\ task' = [task EXCEPT ![i] = "done"]
    /\ UNCHANGED <<args, pc, ret, err, pool, dir, json_files, invoked,
                   results, next_i, dest, wbuf, atOpen, calls, touched,
                   logFile, report>>
    /\ UNCHANGED aux

\* variant: for_each returns as soon as one closure has finished
ValJoin_early ==
    /\ pc = "val_par"
    /\ \E i \in DOMAIN task : task[i] = "done"
    /\ Goto("val_log")
    /\ UNCHANGED <<args, pool, dir, json_files, stats, task, invoked, results,
                   errors, next_i, dest, wbuf, atOpen, calls, touched,
                   logFile, report>>
    /\ UNCHANGED aux

\* for_each has returned: every closure has finished
ValJoin ==
    /\ pc = "val_par"
    /\ \A i \in DOMAIN task : task[i] = "done"
    /\ Goto("val_log")
    /\ UNCHANGED <<args, pool, dir, json_files, stats, task, invoked, results,
                   errors, next_i, dest, wbuf, atOpen, calls, touched,
                   logFile, report>>
    /\ UNCHANGED aux

\* variant: a non-empty failure list is returned as an error
WriteErrorLog_strict(next) ==
    IF errors # <<>>
    THEN /\ calls' = calls
         /\ logFile' = logFile
         /\ Fail("FilesFailed")
    ELSE /\ calls' = calls
         /\ logFile' = logFile
         /\ Goto(next)

\* write_error_log(log_path, &errors)?  (File::create and the writes can fail)
WriteErrorLog(next) ==
    IF args.log
    THEN /\ calls' = calls \cup {"write_error_log"}
         /\ \/ /\ logFile' = <<errors>>
               /\ Goto(next)
            \/ /\ logFile' = logFile
               /\ Fail("LogWrite")
    ELSE /\ calls' = calls
         /\ logFile' = logFile
         /\ Goto(next)

ValLog ==
    /\ pc = "val_log"
    /\ WriteErrorLog("val_summary")
    /\ UNCHANGED <<args, pool, dir, json_files, stats, task, invoked, results,
                   errors, next_i, dest, wbuf, atOpen, touched, report>>
    /\ UNCHANGED aux

\* variant: invalid files make run_validation_mode return an error
ValSummary_strict ==
    /\ pc = "val_summary"
    /\ report' = <<stats>>
    /\ IF stats.validation_failed = 0 THEN Succeed ELSE Fail("InvalidFiles")
    /\ UNCHANGED <<args, pool, dir, json_files, stats, task, invoked, results,
                   errors, next_i, dest, wbuf, atOpen, calls, touched,
                   logFile>>
    /\ UNCHANGED aux

\* stats.print_validation_summary(); the notice; Ok(())
ValSummary ==
    /\ pc = "val_summary"
    /\ report' = <<stats>>
    /\ Succeed
    /\ UNCHANGED <<args, pool, dir, json_files, stats, task, invoked, results,
                   errors, next_i, dest, wbuf, atOpen, calls, touched,
                   logFile>>
    /\ UNCHANGED aux

----------------------------------------------------------------------------
(* run_conversion_mode *)

\* variant: the existence test is inverted
OutputRefused_inverted(mode, exists) == mode = "Error" /\ ~exists

\* check_output_mode: args.mode == WriteMode::Error && args.output.exists()
OutputRefused(mode, exists) == mode = "Error" /\ exists

CheckOutputMode ==
    /\ pc = "mode"
    /\ ModeOf(args) = "convert"
    /\ calls' = calls \cup {"run_conversion_mode", "check_output_mode"}
                      \cup (IF args.mode = "Error" THEN {"exists"} ELSE {})
    /\ IF OutputRefused(args.mode, dest.exists)
       THEN Fail("OutputExists")
       ELSE Goto("conv_par")
    /\ UNCHANGED <<args, pool, dir, json_files, stats, task, invoked, results,
                   errors, next_i, dest, wbuf, atOpen, touched, logFile,
                   report>>
    /\ UNCHANGED aux

ConvStart(i) ==
    /\ pc = "conv_par"
    /\ StartTask(i)
    /\ UNCHANGED <<args, pc, ret, err, pool, dir, json_files, stats, results,
                   errors, next_i, dest, wbuf, atOpen, calls, touched,
                   logFile, report>>
    /\ UNCHANGED aux

\* variant: collect() stores the results in the order the closures return
ConvReturn_arrival(i) ==
    /\ pc = "conv_par"
    /\ task[i] = "running"
    /\ LET free == {k \in DOMAIN results : results[k] = <<>>}
           slot == CHOOSE k \in free : \A l \in free : k <= l
       IN  results' = [results EXCEPT ![slot] = <<ResultOf(i, FALSE)>>]
    /\ task' = [task EXCEPT ![i] = "done"]
    /\ UNCHANGED <<args, pc, ret, err, pool, dir, json_files, stats, invoked,
                   errors, next_i, dest, wbuf, atOpen, calls, touched,
                   logFile, report>>
    /\ UNCHANGED aux

\* the map closure returns its result, which collect() stores at the
\* item's own index
ConvReturn(i) ==
    /\ pc = "conv_par"
    /\ task[i] = "running"
    /\ results' = [results EXCEPT ![i] = <<ResultOf(i, FALSE)>>]
    /\ task' = [task EXCEPT ![i] = "done"]
    /\ UNCHANGED <<args, pc, ret, err, pool, dir, json_files, stats, invoked,
                   errors, next_i, dest, wbuf, atOpen, calls, touched,
                   logFile, report>>
    /\ UNCHANGED aux

\* collect() has returned: every closure has finished
ConvCollect ==
    /\ pc = "conv_par"
    /\ \A i \in DOMAIN task : task[i] = "done"
    /\ Goto("conv_open")
    /\ UNCHANGED <<args, pool, dir, json_files, stats, task, invoked, results,
                   errors, next_i, dest, wbuf, atOpen, calls, touched,
                   logFile, report>>
    /\ UNCHANGED aux

\* Another process creates or replaces the destination while the files are
\* being processed (after check_output_mode, before open_output_file).
ForeignCreate ==
    /\ pc = "conv_par"
    /\ ~touched
    /\ touched' = TRUE
    /\ dest' = [exists |-> TRUE, content |-> ForeignContent]
    /\ UNCHANGED <<args, pc, ret, err, pool, dir, json_files, stats, task,
                   invoked, results, errors, next_i, wbuf, atOpen, calls,
                   logFile, report>>
    /\ UNCHANGED aux

\* variant: every mode opens with File::create
OpenedContent_create(mode, content) == <<>>

\* open_output_file: what is in the file once it is open
OpenedContent(mode, content) == IF mode = "Append" THEN content ELSE <<>>

\* variant: under Error mode the open fails when the destination exists
OpenOutputFile_recheck ==
    /\ pc = "conv_open"
    /\ \/ /\ ~OutputRefused(args.mode, dest.exists)
          /\ calls' = calls \cup {"open_output_file",
                                  IF args.mode = "Append" THEN "open_append"
                                  ELSE "create"}
          /\ atOpen' = dest.content
          /\ dest' = [exists |-> TRUE,
                      content |-> OpenedContent(args.mode, dest.content)]
          /\ Goto("conv_loop")
       \/ /\ OutputRefused(args.mode, dest.exists)
          /\ calls' = calls \cup {"open_output_file"}
          /\ UNCHANGED <<atOpen, dest>>
          /\ Fail("OutputExists")
       \/ /\ calls' = calls \cup {"open_output_file"}
          /\ UNCHANGED <<atOpen, dest>>
          /\ Fail("OpenOutput")
    /\ UNCHANGED <<args, pool, dir, json_files, stats, task, invoked, results,
                   errors, next_i, wbuf, touched, logFile, report>>
    /\ UNCHANGED aux

\* open_output_file(args)?: File::create, or OpenOptions append + create
OpenOutputFile ==
    /\ pc = "conv_open"
    /\ \/ /\ calls' = calls \cup {"open_output_file",
                                  IF args.mode = "Append" THEN "open_append"
                                  ELSE "create"}
          /\ atOpen' = dest.content
          /\ dest' = [exists |-> TRUE,
                      content |-> OpenedContent(args.mode, dest.content)]
          /\ Goto("conv_loop")
       \/ /\ calls' = calls \cup {"open_output_file"}
          /\ UNCHANGED <<atOpen, dest>>
          /\ Fail("OpenOutput")
    /\ UNCHANGED <<args, pool, dir, json_files, stats, task, invoked, results,
                   errors, next_i, wbuf, touched, logFile, report>>
    /\ UNCHANGED aux

\* variant: the success is counted a second time
CountLine_twice(s, r) ==
    increment_success(increment_success(
        add_bytes_written(add_bytes_read(s, r.file_size), r.json_line[1] + 1)))

\* variant: the newline byte is left out of the line's byte count
CountLine_nonl(s, r) ==
    increment_success(
        add_bytes_written(add_bytes_read(s, r.file_size), r.json_line[1]))

\* the three counter updates made for a result that holds a line
CountLine(s, r) ==
    increment_success(
        add_bytes_written(add_bytes_read(s, r.file_size), r.json_line[1] + 1))

\* variant: the line is handed to the writer twice
Written_twice(r) == Line(r.path, r.json_line[1]) \o Line(r.path, r.json_line[1])

\* writeln!(w, "{}", json_line): the bytes handed to the BufWriter
Written(r) == Line(r.path, r.json_line[1])

\* The BufWriter is dropped on an error return: it flushes what it can.
DropWriter ==
    \E k \in 0..Len(wbuf) :
        /\ dest' = [dest EXCEPT !.content = @ \o SubSeq(wbuf, 1, k)]
        /\ wbuf' = <<>>

\* one iteration of `for result in results`
ConvFold ==
    /\ pc = "conv_loop"
    /\ next_i <= Len(results)
    /\ next_i' = next_i + 1
    /\ LET r == results[next_i][1]
       IN  IF r.json_line # <<>>
           THEN /\ stats' = CountLine(stats, r)
                /\ errors' = errors
                /\ calls' = calls \cup {"write"}
                /\ \/ /\ wbuf' = wbuf \o Written(r)
                      /\ dest' = dest
                      /\ Goto("conv_loop")
                   \/ \* the buffer is full: it is written out first
                      /\ wbuf # <<>>
                      /\ wbuf' = Written(r)
                      /\ dest' = [dest EXCEPT !.content = @ \o wbuf]
                      /\ Goto("conv_loop")
                   \/ /\ DropWriter
                      /\ Fail("Write")
           ELSE /\ IF r.error # <<>>
                   THEN /\ stats' = increment_error(stats)
                        /\ errors' = PushError(errors, r)
                   ELSE UNCHANGED <<stats, errors>>
                /\ UNCHANGED <<calls, wbuf, dest>>
                /\ Goto("conv_loop")
    /\ UNCHANGED <<args, pool, dir, json_files, task, invoked, results,
                   atOpen, touched, logFile, report>>
    /\ UNCHANGED aux

\* writer.lock().unwrap().flush()?
ConvFlush ==
    /\ pc = "conv_loop"
    /\ next_i > Len(results)
    /\ \/ /\ dest' = [dest EXCEPT !.content = @ \o wbuf]
          /\ wbuf' = <<>>
          /\ Goto("conv_log")
       \/ /\ DropWriter
          /\ Fail("Flush")
    /\ UNCHANGED <<args, pool, dir, json_files, stats, task, invoked, results,
                   errors, next_i, atOpen, calls, touched, logFile, report>>
    /\ UNCHANGED aux

ConvLog ==
    /\ pc = "conv_log"
    /\ WriteErrorLog("conv_summary")
    /\ UNCHANGED <<args, pool, dir, json_files, stats, task, invoked, results,
                   errors, next_i, dest, wbuf, atOpen, touched, report>>
    /\ UNCHANGED aux

\* stats.print_summary(); Ok(())
ConvSummary ==
    /\ pc = "conv_summary"
    /\ report' = <<stats>>
    /\ Succeed
    /\ UNCHANGED <<args, pool, dir, json_files, stats, task, invoked, results,
                   errors, next_i, dest, wbuf, atOpen, calls, touched,
                   logFile>>
    /\ UNCHANGED aux

Next ==
    \/ BuildThreadPool
    \/ ValidateInput
    \/ NewPatternMatcher
    \/ CollectJsonFiles
    \/ DryRun
    \/ EnterValidation
    \/ \E i \in 1..MaxFiles : i \in DOMAIN task /\ ValStart(i)
    \/ \E i \in 1..MaxFiles : i \in DOMAIN task /\ ValCount(i)
    \/ \E i \in 1..MaxFiles : i \in DOMAIN task /\ ValFinish(i)
    \/ ValJoin
    \/ ValLog
    \/ ValSummary
    \/ CheckOutputMode
    \/ \E i \in 1..MaxFiles : i \in DOMAIN task /\ ConvStart(i)
    \/ \E i \in 1..MaxFiles : i \in DOMAIN task /\ ConvReturn(i)
    \/ ConvCollect
    \/ ForeignCreate
    \/ OpenOutputFile
    \/ ConvFold
    \/ ConvFlush
    \/ ConvLog
    \/ ConvSummary


Spec == Init /\ [][Next]_vars

----------------------------------------------------------------------------
(* processor.rs on file contents.  A string is a sequence of characters, a *)
(* JSON value (serde_json::Value) a record tagged by its type: an object   *)
(* holds a function from keys to values, an array a sequence of values.    *)

MaxArr == 2       \* elements of an array
MaxFields == 2    \* selectors of a field list

JNull == [t |-> "null"]
JNum(n) == [t |-> "num", n |-> n]
JStr(str) == [t |-> "str", s |-> str]
JObj(map) == [t |-> "obj", m |-> map]
JArr(elems) == [t |-> "arr", a |-> elems]

\* the strings the values and selectors are made of
S_a == <<"a">>
S_b == <<"b">>
S_a_b == <<"a", "_", "b">>
Selectors == {S_a, S_a_b, <<"a", ".", "b">>, <<"a", ".", "0">>,
              <<"a", ".", "2">>, <<"a", ".", "b", ".", "c">>,
              <<"0", ".", "a">>, <<"a", ".", "+", "1">>}

SeqsUpTo(S, n) == UNION {[1..k -> S] : k \in 0..n}
\* the objects whose keys are among K and whose values are in V
Objects(K, V) == {JObj(f) : f \in UNION {[D -> V] : D \in SUBSET K}}
Arrays(V) == {JArr(e) : e \in SeqsUpTo(V, MaxArr)}

Scalars == {JNum(1), JStr(<<"x", "\n">>)}
Inner == Scalars \cup Objects({S_b}, Scalars) \cup Arrays(Scalars)
Elements == Objects({S_a}, Scalars \cup Objects({S_b}, Scalars))
                \cup {JNull, JArr(<<JObj([k \in {S_a} |-> JNum(1)])>>)}
Values == Scalars \cup Objects({S_a, S_a_b}, Inner) \cup Arrays(Elements)
FieldLists == SeqsUpTo(Selectors, MaxFields)

\* str::contains(char), str::replace(char, &str) with a one-character string
contains(str, c) == \E i \in DOMAIN str : str[i] = c
replace(str, c, d) == [i \in DOMAIN str |-> IF str[i] = c THEN d ELSE str[i]]

\* str::split(char): the pieces between the separators, empty ones included
RECURSIVE SplitFrom(_, _, _)
SplitFrom(str, c, piece) ==
    IF str = <<>> THEN <<piece>>
    ELSE IF Head(str) = c THEN <<piece>> \o SplitFrom(Tail(str), c, <<>>)
    ELSE SplitFrom(Tail(str), c, Append(piece, Head(str)))
split(str, c) == SplitFrom(str, c, <<>>)

\* str::parse::<usize>(): an optional '+', then one or more decimal digits
DigitChars == <<"0", "1", "2", "3", "4", "5", "6", "7", "8", "9">>
IsDigit(c) == \E d \in DOMAIN DigitChars : DigitChars[d] = c
DigitOf(c) == (CHOOSE d \in DOMAIN DigitChars : DigitChars[d] = c) - 1
RECURSIVE DigitsValue(_, _)
DigitsValue(str, acc) ==
    IF str = <<>> THEN acc
    ELSE DigitsValue(Tail(str), 10 * acc + DigitOf(Head(str)))
parse_usize(str) ==
    LET digits == IF str # <<>> /\ Head(str) = "+" THEN Tail(str) ELSE str
    IN  IF digits # <<>> /\ \A i \in DOMAIN digits : IsDigit(digits[i])
        THEN <<DigitsValue(digits, 0)>>
        ELSE <<>>

\* variant: the index is taken as one-based
ArrayStep_onebased(arr, part) ==
    LET index == parse_usize(part)
    IN  IF index # <<>> /\ index[1] \in DOMAIN arr THEN <<arr[index[1]]>>
        ELSE <<>>

\* get_nested_field, the Value::Array arm: arr.get(index) of the parsed part
ArrayStep(arr, part) ==
    LET index == parse_usize(part)
    IN  IF index # <<>> /\ index[1] + 1 \in DOMAIN arr
        THEN <<arr[index[1] + 1]>>
        ELSE <<>>

\* get_nested_field, the loop over the parts; <<>> is None, <<v>> is Some(v)
RECURSIVE WalkParts(_, _)
WalkParts(current, parts) ==
    IF parts = <<>> THEN <<current>>
    ELSE CASE current.t = "obj" ->
                IF Head(parts) \in DOMAIN current.m
                THEN WalkParts(current.m[Head(parts)], Tail(parts))
                ELSE <<>>
           [] current.t = "arr" ->
                LET next == ArrayStep(current.a, Head(parts))
                IN  IF next # <<>> THEN WalkParts(next[1], Tail(parts))
                    ELSE <<>>
           [] OTHER -> <<>>

get_nested_field(json, path) == WalkParts(json, split(path, "."))

\* variant: a key already present keeps its value
Insert_keepfirst(map, key, value) ==
    [k \in DOMAIN map \cup {key} |-> IF k \in DOMAIN map THEN map[k] ELSE value]

\* Map::insert
Insert(map, key, value) ==
    [k \in DOMAIN map \cup {key} |-> IF k = key THEN value ELSE map[k]]

\* extract_fields, the Value::Object arm: the loop over the fields
RECURSIVE InsertFields(_, _, _)
InsertFields(json, fields, new_map) ==
    IF fields = <<>> THEN new_map
    ELSE LET field == Head(fields)
             found == IF contains(field, ".") THEN get_nested_field(json, field)
                      ELSE IF field \in DOMAIN json.m THEN <<json.m[field]>>
                      ELSE <<>>
             key == IF contains(field, ".") THEN replace(field, ".", "_")
                    ELSE field
         IN  InsertFields(json, Tail(fields),
                          IF found # <<>> THEN Insert(new_map, key, found[1])
                          ELSE new_map)

RECURSIVE extract_fields(_, _)

\* variant: only the elements that are objects are kept
ExtractArray_objects(arr, fields) ==
    LET kept == SelectSeq(arr, LAMBDA item : item.t = "obj")
    IN  JArr([i \in DOMAIN kept |-> extract_fields(kept[i], fields)])

\* extract_fields, the Value::Array arm
ExtractArray(arr, fields) ==
    JArr([i \in DOMAIN arr |-> extract_fields(arr[i], fields)])

extract_fields(json, fields) ==
    CASE json.t = "obj" -> JObj(InsertFields(json, fields, <<>>))
      [] json.t = "arr" -> ExtractArray(json.a, fields)
      [] OTHER -> json

----------------------------------------------------------------------------
(* serde_json::to_string and to_string_pretty as called by                 *)
(* process_file_internal: the text of a value, as a sequence of characters *)

RECURSIVE Concat(_)
Concat(pieces) == IF pieces = <<>> THEN <<>> ELSE Head(pieces) \o Concat(Tail(pieces))
RECURSIVE JoinWith(_, _)
JoinWith(pieces, sep) ==
    IF pieces = <<>> THEN <<>>
    ELSE IF Len(pieces) = 1 THEN pieces[1]
    ELSE pieces[1] \o sep \o JoinWith(Tail(pieces), sep)

\* variant: control characters are written as they are
Escape_raw(str) == Concat([i \in DOMAIN str |->
        IF str[i] \in {"\"", "\\"} THEN <<"\\", str[i]>> ELSE <<str[i]>>])

\* the characters of a string between its quotes
Escape(str) == Concat([i \in DOMAIN str |->
        IF str[i] = "\n" THEN <<"\\", "n">>
        ELSE IF str[i] \in {"\"", "\\"} THEN <<"\\", str[i]>>
        ELSE <<str[i]>>])
Quoted(str) == <<"\"">> \o Escape(str) \o <<"\"">>

RECURSIVE NumText(_)
NumText(n) ==
    IF n < 10 THEN <<DigitChars[n + 1]>>
    ELSE NumText(n \div 10) \o <<DigitChars[(n % 10) + 1]>>

Indent(level) == [i \in 1..(2 * level) |-> " "]
\* the keys of a map in the order the map iterates them
KeysOf(map) ==
    CHOOSE ks \in [1..Cardinality(DOMAIN map) -> DOMAIN map] :
        \A i, j \in DOMAIN ks : i # j => ks[i] # ks[j]

\* an opening bracket, the items, a closing bracket; in the indented form
\* every item is on a line of its own, an empty container is just brackets
Bracketed(open, items, close, pretty, level) ==
    IF items = <<>> THEN <<open, close>>
    ELSE IF pretty
         THEN <<open, "\n">> \o Indent(level + 1)
                \o JoinWith(items, <<",", "\n">> \o Indent(level + 1))
                \o <<"\n">> \o Indent(level) \o <<close>>
         ELSE <<open>> \o JoinWith(items, <<",">>) \o <<close>>

RECURSIVE Serialize(_, _, _)
Serialize(v, pretty, level) ==
    CASE v.t = "null" -> <<"n", "u", "l", "l">>
      [] v.t = "num" -> NumText(v.n)
      [] v.t = "str" -> Quoted(v.s)
      [] v.t = "arr" ->
            Bracketed("[", [i \in DOMAIN v.a |-> Serialize(v.a[i], pretty, level + 1)],
                      "]", pretty, level)
      [] v.t = "obj" ->
            LET ks == KeysOf(v.m)
            IN  Bracketed("{", [i \in DOMAIN ks |->
                                  Quoted(ks[i]) \o (IF pretty THEN <<":", " ">> ELSE <<":">>)
                                    \o Serialize(v.m[ks[i]], pretty, level + 1)],
                          "}", pretty, level)

to_string(v) == Serialize(v, FALSE, 0)
to_string_pretty(v) == Serialize(v, TRUE, 0)

----------------------------------------------------------------------------
(* process_file on a file of the file system.  A file opens or not, can be *)
(* memory-mapped or not, and holds bytes that are the text of a JSON value *)
(* or are malformed; its size is what metadata reports.                    *)

MmapThreshold == 10 * 1024 * 1024

Docs == Scalars \cup Objects({S_a}, Scalars \cup Objects({S_b}, {JNum(1)}))
            \cup Arrays({JNum(1)})
Contents == {[wf |-> FALSE]} \cup {[wf |-> TRUE, json |-> v] : v \in Docs}
Sizes == {0, MmapThreshold}
Thresholds == {0, MmapThreshold, 2 * MmapThreshold}
Files == [opens : BOOLEAN, maps : BOOLEAN, bytes : Contents, size : Sizes]
\* Option<Vec<String>>: <<>> is None, <<fields>> is Some(fields)
OptionFields == {<<>>} \cup {<<fs>> : fs \in {<<>>, <<S_a>>, <<<<"a", ".", "b">>>>}}
Options == [fields : OptionFields, pretty : BOOLEAN, validate_only : BOOLEAN,
            mmap_threshold : Thresholds]

\* serde_json::from_reader / from_slice: the value the bytes are the text of
Deserialize(bytes) ==
    IF bytes.wf THEN [ok |-> TRUE, json |-> bytes.json]
    ELSE [ok |-> FALSE, e |-> "ParseError"]

parse_with_reader(file) ==
    IF ~file.opens THEN [ok |-> FALSE, e |-> "FileOpenError"]
    ELSE Deserialize(file.bytes)

\* variant: malformed bytes are reported as a file that does not open
parse_with_mmap_openerror(file) ==
    IF ~file.opens THEN [ok |-> FALSE, e |-> "FileOpenError"]
    ELSE IF ~file.maps \/ ~file.bytes.wf THEN [ok |-> FALSE, e |-> "FileOpenError"]
    ELSE Deserialize(file.bytes)

parse_with_mmap(file) ==
    IF ~file.opens THEN [ok |-> FALSE, e |-> "FileOpenError"]
    ELSE IF ~file.maps THEN [ok |-> FALSE, e |-> "FileOpenError"]
    ELSE Deserialize(file.bytes)

\* variant: the validate_only return comes after the serialization
ProcessFileInternal_late(file, file_size, options) ==
    LET parsed == IF file_size >= options.mmap_threshold THEN parse_with_mmap(file)
                  ELSE parse_with_reader(file)
    IN  IF ~parsed.ok THEN [ok |-> FALSE, e |-> parsed.e, line |-> <<>>, did |-> {}]
        ELSE [ok |-> TRUE, e |-> "",
              line |-> IF options.validate_only THEN <<>>
                       ELSE to_string(parsed.json),
              did |-> {"extract_fields", "serialize"}]

\* process_file_internal: Result<String>, with the stages it went through
ProcessFileInternal(file, file_size, options) ==
    LET parsed == IF file_size >= options.mmap_threshold THEN parse_with_mmap(file)
                  ELSE parse_with_reader(file)
    IN  IF ~parsed.ok THEN [ok |-> FALSE, e |-> parsed.e, line |-> <<>>, did |-> {}]
        ELSE IF options.validate_only
        THEN [ok |-> TRUE, e |-> "", line |-> <<>>, did |-> {}]
        ELSE LET output_json == IF options.fields # <<>>
                                THEN extract_fields(parsed.json, options.fields[1])
                                ELSE parsed.json
             IN  [ok |-> TRUE, e |-> "",
                  line |-> IF options.pretty THEN to_string_pretty(output_json)
                           ELSE to_string(output_json),
                  did |-> (IF options.fields # <<>> THEN {"extract_fields"} ELSE {})
                             \cup {"serialize"}]

ProcessFile(path, file, options) ==
    LET file_size == file.size
        r == ProcessFileInternal(file, file_size, options)
    IN  IF r.ok
        THEN IF options.validate_only THEN valid(path, file_size)
             ELSE success(path, r.line, file_size)
        ELSE failure(path, r.e, file_size)

----------------------------------------------------------------------------
(* Function-level specifications: main is not running.                     *)
orch == <<args, pc, ret, err, pool, dir, json_files, stats, task, invoked,
          results, errors, next_i, dest, wbuf, atOpen, calls, touched,
          logFile, report>>

NoRun ==
    /\ args = [mode |-> "Overwrite", dry_run |-> FALSE,
               validate_only |-> FALSE, log |-> FALSE]
    /\ pc = "lib"
    /\ ret = "none"
    /\ err = ""
    /\ pool = 0
    /\ dir = <<>>
    /\ json_files = <<>>
    /\ stats = NewStatistics(0)
    /\ task = <<>>
    /\ invoked = <<>>
    /\ results = <<>>
    /\ errors = <<>>
    /\ next_i = 1
    /\ dest = [exists |-> FALSE, content |-> <<>>]
    /\ wbuf = <<>>
    /\ atOpen = <<>>
    /\ calls = {}
    /\ touched = FALSE
    /\ logFile = <<>>
    /\ report = <<>>

\* extract_fields and get_nested_field applied to a value and selectors
ExtractInit ==
    /\ NoRun
    /\ fin \in [json : Values, fields : FieldLists]
    /\ fout = <<>>
    /\ thr = <<>>

CallExtractFields ==
    /\ pc = "lib"
    /\ fout = <<>>
    /\ fout' = <<[f |-> "extract_fields",
                  v |-> <<extract_fields(fin.json, fin.fields)>>]>>
    /\ UNCHANGED <<orch, fin, thr>>

CallGetNestedField ==
    /\ pc = "lib"
    /\ fout = <<>>
    /\ fin.fields # <<>>
    /\ fout' = <<[f |-> "get_nested_field",
                  v |-> get_nested_field(fin.json, fin.fields[1])]>>
    /\ UNCHANGED <<orch, fin, thr>>

ExtractNext == CallExtractFields \/ CallGetNestedField

ExtractSpec == ExtractInit /\ [][ExtractNext]_vars

\* process_file applied to a file under some options
FileInit ==
    /\ NoRun
    /\ fin \in [path : {1}, file : Files, options : Options]
    /\ fout = <<>>
    /\ thr = <<>>

CallProcessFile ==
    /\ pc = "lib"
    /\ fout = <<>>
    /\ fout' = <<[f |-> "process_file",
                  r |-> ProcessFile(fin.path, fin.file, fin.options),
                  did |-> ProcessFileInternal(fin.file, fin.file.size, fin.options).did]>>
    /\ UNCHANGED <<orch, fin, thr>>

FileNext == CallProcessFile

FileSpec == FileInit /\ [][FileNext]_vars

----------------------------------------------------------------------------
(* stats.rs under concurrent callers: threads sharing one Statistics, each *)
(* issuing calls in any order                                              *)

MaxCalls == 2     \* calls issued by one thread

StatsCalls ==
    {[f |-> f, bytes |-> 1] :
        f \in {"increment_success", "increment_error", "increment_validation_failed"}}
    \cup {[f |-> f, bytes |-> b] :
            f \in {"add_bytes_read", "add_bytes_written"}, b \in 1..2}

\* the AtomicUsize / AtomicU64 a call works on
CounterOf(call) ==
    CASE call.f = "increment_success" -> "success_count"
      [] call.f = "increment_error" -> "error_count"
      [] call.f = "increment_validation_failed" -> "validation_failed"
      [] call.f = "add_bytes_read" -> "total_bytes_read"
      [] call.f = "add_bytes_written" -> "total_bytes_written"

ApplyCall(s, call) ==
    CASE call.f = "increment_success" -> increment_success(s)
      [] call.f = "increment_error" -> increment_error(s)
      [] call.f = "increment_validation_failed" -> increment_validation_failed(s)
      [] call.f = "add_bytes_read" -> add_bytes_read(s, call.bytes)
      [] call.f = "add_bytes_written" -> add_bytes_written(s, call.bytes)

Counters == {"success_count", "error_count", "validation_failed",
             "total_bytes_read", "total_bytes_written"}

StatsInit ==
    /\ NoRun
    /\ fin = <<>>
    /\ fout = <<>>
    /\ thr = [t \in 1..MaxThreads |->
                [at |-> "idle", call |-> <<>>, seen |-> 0, calls |-> 0,
                 issued |-> [c \in Counters |-> 0]]]

\* variant: the update is a load followed by a store of the sum
FetchAdd_torn(t) ==
    /\ pc = "lib"
    /\ \/ /\ thr[t].at = "idle"
          /\ thr[t].calls < MaxCalls
          /\ \E call \in StatsCalls :
                thr' = [thr EXCEPT ![t].at = "loaded", ![t].call = <<call>>,
                                   ![t].seen = stats[CounterOf(call)]]
          /\ stats' = stats
       \/ /\ thr[t].at = "loaded"
          /\ LET call == thr[t].call[1]
             IN  /\ stats' = [stats EXCEPT ![CounterOf(call)] = thr[t].seen + call.bytes]
                 /\ thr' = [thr EXCEPT ![t].at = "idle", ![t].call = <<>>,
                                       ![t].calls = @ + 1,
                                       ![t].issued[CounterOf(call)] = @ + call.bytes]
    /\ UNCHANGED <<args, pc, ret, err, pool, dir, json_files, task, invoked,
                   results, errors, next_i, dest, wbuf, atOpen, calls, touched,
                   logFile, report, fin, fout>>

\* one call of thread t: a single fetch_add(.., Ordering::Relaxed)
FetchAdd(t) ==
    /\ pc = "lib"
    /\ thr[t].at = "idle"
    /\ thr[t].calls < MaxCalls
    /\ \E call \in StatsCalls :
          /\ stats' = ApplyCall(stats, call)
          /\ thr' = [thr EXCEPT ![t].calls = @ + 1,
                                ![t].issued[CounterOf(call)] = @ + call.bytes]
    /\ UNCHANGED <<args, pc, ret, err, pool, dir, json_files, task, invoked,
                   results, errors, next_i, dest, wbuf, atOpen, calls, touched,
                   logFile, report, fin, fout>>

StatsNext == \E t \in 1..MaxThreads : FetchAdd(t)

StatsSpec == StatsInit /\ [][StatsNext]_vars

----------------------------------------------------------------------------
(* Vocabulary of the properties *)

Counted(s) == s.success_count + s.error_count + s.validation_failed

\* main has returned Ok(()) from run_validation_mode or run_conversion_mode,
\* or from the empty-list return
Completed ==
    /\ pc = "done"
    /\ ret = "Ok"
    /\ "collect_json_files" \in calls
    /\ ModeOf(args) \in {"validate_only", "convert"} \/ json_files = <<>>

\* the parallel iterator has returned
Joined ==
    \/ pc \in {"val_log", "val_summary", "conv_open", "conv_loop", "conv_log",
               "conv_summary"}
    \/ pc = "done" /\ calls \cap {"run_validation_mode", "open_output_file"} # {}

ConfigErrors == {"ThreadPool", "InputNotFound", "NotADirectory",
                 "InvalidPattern", "OutputExists"}
OutputErrors == {"OpenOutput", "Write", "Flush", "LogWrite"}
DestCalls == {"exists", "create", "open_append", "write"}

Failing == {i \in DOMAIN json_files : ~Parses(dir[json_files[i]])}
Passing == {i \in DOMAIN json_files : Parses(dir[json_files[i]])}

\* what the run has put after the content the open left in the destination,
\* on disk and in the writer's buffer
OnDisk == SubSeq(dest.content, Len(OpenedContent(args.mode, atOpen)) + 1,
                 Len(dest.content))
Emitted == OnDisk \o wbuf

\* a chunk sequence is made of whole lines: a body directly followed by the
\* newline of the same line
WholeLines(c) ==
    /\ Len(c) % 2 = 0
    /\ \A j \in DOMAIN c :
          IF j % 2 = 1 THEN c[j].k = "body"
          ELSE c[j].k = "nl" /\ c[j].src = c[j - 1].src
Occurrences(c, p) == Cardinality({j \in DOMAIN c : c[j].k = "body" /\ c[j].src = p})

----------------------------------------------------------------------------
\* C1: after a completed validate-only or convert run over N discovered
\* files, success_count + error_count + validation_failed = N = total_files.
Completeness ==
    Completed =>
        /\ Counted(stats) = Len(json_files)
        /\ stats.total_files = Len(json_files)

CompletenessWitness ==
    /\ Completed
    /\ ModeOf(args) = "convert"
    /\ Len(json_files) >= 2
    /\ stats.success_count >= 1
    /\ stats.error_count >= 1

\* C2: in every state of a run the three outcome counters sum to at most
\* total_files, and no counter or byte total ever decreases.
CountersBounded == Counted(stats) <= stats.total_files
CountersGrow ==
    /\ stats'.success_count >= stats.success_count
    /\ stats'.error_count >= stats.error_count
    /\ stats'.validation_failed >= stats.validation_failed
    /\ stats'.total_bytes_read >= stats.total_bytes_read
    /\ stats'.total_bytes_written >= stats.total_bytes_written
BoundedAndMonotone == []CountersBounded /\ [][CountersGrow]_vars

BoundedAndMonotoneWitness ==
    /\ pc = "val_par"
    /\ Active # {}
    /\ stats.success_count >= 1
    /\ stats.validation_failed >= 1
    /\ Counted(stats) < stats.total_files

\* C3: in convert mode the run emits only whole lines, the line of a
\* Serialized result at most once, and when the run returns Ok the line of
\* every Serialized result is in the destination exactly once and nothing is
\* left in the writer's buffer.
WrittenExactlyOnce ==
    (ret # "Err" /\ "open_output_file" \in calls) =>
        /\ WholeLines(Emitted)
        /\ \A i \in DOMAIN results :
              LET r == results[i][1]
              IN  /\ Occurrences(Emitted, r.path) <= 1
                  /\ r.json_line = <<>> => Occurrences(Emitted, r.path) = 0
                  /\ \A j \in DOMAIN Emitted :
                        (Emitted[j].k = "body" /\ Emitted[j].src = r.path)
                            => Emitted[j].len = r.json_line[1]
                  /\ (pc = "done" /\ r.json_line # <<>>)
                        => Occurrences(OnDisk, r.path) = 1
        /\ pc = "done" => wbuf = <<>>
        /\ \A j \in DOMAIN Emitted : Emitted[j].src \in Range(json_files)

WrittenExactlyOnceWitness ==
    /\ pc = "done"
    /\ ret = "Ok"
    /\ ModeOf(args) = "convert"
    /\ Cardinality(Passing) >= 2
    /\ Failing # {}
    /\ pool >= 2
    /\ Len(OnDisk) = 2 * Cardinality(Passing)

\* C4: process_file is invoked at most once per path and never for a path
\* that is not in the discovered-and-filtered list; once the parallel
\* iterator has returned it has been invoked exactly once for every path of
\* the list.
ProcessedExactlyOnce ==
    /\ \A p \in DOMAIN invoked :
          /\ invoked[p] <= 1
          /\ IsJson(dir[p]) \/ invoked[p] = 0
    /\ Range(json_files) = {p \in DOMAIN dir : IsJson(dir[p])}
    /\ Len(json_files) = Cardinality(Range(json_files))
    /\ Joined => \A i \in DOMAIN json_files : invoked[json_files[i]] = 1

ProcessedExactlyOnceWitness ==
    /\ Joined
    /\ pool >= 2
    /\ Len(json_files) >= 2
    /\ \E p \in DOMAIN dir : ~IsJson(dir[p])
    /\ \A i \in DOMAIN json_files : invoked[json_files[i]] = 1

\* C5: in convert mode with write mode Error, when the destination exists
\* at check_output_mode the run returns an error there: process_file has not
\* been invoked for any file, the destination is as it was and every
\* Statistics counter is still zero.
NothingProcessed ==
    /\ \A p \in DOMAIN invoked : invoked[p] = 0
    /\ \A i \in DOMAIN results : results[i] = <<>>
    /\ stats = NewStatistics(Len(json_files))
    /\ calls \cap {"create", "open_append", "write"} = {}
RefusedAtCheck ==
    (pc = "mode" /\ ModeOf(args) = "convert" /\ args.mode = "Error"
        /\ dest.exists)
    => /\ pc' = "done"
       /\ ret' = "Err"
       /\ err' = "OutputExists"
       /\ dest' = dest
       /\ stats' = stats
       /\ invoked' = invoked
RefusedUntouched ==
    (pc = "done" /\ err = "OutputExists") =>
        /\ NothingProcessed
        /\ ~touched
        /\ dest = [exists |-> TRUE, content |-> PriorContent]
        /\ wbuf = <<>>
ErrorModeAborts == []RefusedUntouched /\ [][RefusedAtCheck]_vars

ErrorModeAbortsWitness ==
    /\ pc = "done"
    /\ ret = "Err"
    /\ err = "OutputExists"
    /\ Passing # {}
    /\ args.mode = "Error"

\* C6: once the destination is open in convert mode, under Append the
\* content found at the open is an unchanged prefix of the destination and
\* what follows is the run's own output; under Overwrite the destination
\* holds only the run's own output.
OwnOutput(c) == \A j \in DOMAIN c : c[j].src \in Range(json_files)
IsPrefix(a, b) == Len(a) <= Len(b) /\ SubSeq(b, 1, Len(a)) = a
AppendKeepsOverwriteDiscards ==
    (calls \cap {"create", "open_append"} # {}) =>
        /\ args.mode = "Append" =>
              /\ IsPrefix(atOpen, dest.content)
              /\ OwnOutput(SubSeq(dest.content, Len(atOpen) + 1,
                                  Len(dest.content)))
        /\ args.mode = "Overwrite" => OwnOutput(dest.content)

AppendKeepsOverwriteDiscardsWitness ==
    /\ pc = "done"
    /\ ret = "Ok"
    /\ args.mode = "Append"
    /\ atOpen = PriorContent
    /\ Len(dest.content) >= Len(atOpen) + 4

\* C7: after a convert run that returned Ok, total_bytes_written is the sum
\* of (line length + 1) over the Serialized results, and is the number of
\* bytes by which the run has grown the destination since it opened it.
ByteAccounting ==
    (Completed /\ ModeOf(args) = "convert" /\ json_files # <<>>) =>
        /\ stats.total_bytes_written =
              SumSeq([i \in DOMAIN results |->
                        IF results[i][1].json_line = <<>> THEN 0
                        ELSE results[i][1].json_line[1] + 1])
        /\ stats.total_bytes_written =
              Bytes(dest.content) - Bytes(OpenedContent(args.mode, atOpen))

ByteAccountingWitness ==
    /\ Completed
    /\ ModeOf(args) = "convert"
    /\ args.mode = "Append"
    /\ atOpen # <<>>
    /\ Cardinality(Passing) >= 2
    /\ stats.total_bytes_written >= 5

\* C8: a per-file failure never aborts the run.  Once processing has been
\* entered, main returns Err only for a failure of the output side
\* (opening, writing or flushing the destination, writing the error log);
\* otherwise it returns Ok with every file processed, one entry in the
\* failure list and one count per failing file, and (convert) the line of
\* every passing file in the destination.
ProcessingEntered == calls \cap {"run_validation_mode", "run_conversion_mode"} # {}
FailureCounter == IF ModeOf(args) = "validate_only" THEN stats.validation_failed
                  ELSE stats.error_count
PerFileFailureIsolated ==
    (pc = "done" /\ ProcessingEntered /\ err \notin OutputErrors \cup {"OutputExists"})
    => /\ ret = "Ok"
       /\ \A i \in DOMAIN json_files : invoked[json_files[i]] = 1
       /\ {errors[j][1] : j \in DOMAIN errors} = {json_files[i] : i \in Failing}
       /\ Len(errors) = Cardinality(Failing)
       /\ FailureCounter = Cardinality(Failing)
       /\ stats.success_count = Cardinality(Passing)
       /\ ModeOf(args) = "convert" =>
             \A i \in Passing : Occurrences(OnDisk, json_files[i]) = 1

PerFileFailureIsolatedWitness ==
    /\ pc = "done"
    /\ ret = "Ok"
    /\ ModeOf(args) = "validate_only"
    /\ Cardinality(Failing) >= 2
    /\ Passing # {}
    /\ \E j \in DOMAIN errors : errors[j][2] = "FileOpenError"
    /\ \E j \in DOMAIN errors : errors[j][2] = "ParseError"

\* C9 as stated: main returns Err only for a configuration-phase failure,
\* and never once process_file has been invoked for a file.
OnlyConfigErrorsPropagate ==
    (pc = "done" /\ ret = "Err") =>
        /\ err \in ConfigErrors
        /\ \A p \in DOMAIN invoked : invoked[p] = 0

\* C9 as amended: main returns Err either for a configuration-phase failure,
\* and then process_file has been invoked for no file, or for a failure of
\* the output side (open_output_file, writeln!, flush, write_error_log), and
\* then the parallel iterator has returned and process_file has been invoked
\* for every file; a per-file failure never makes main return Err.
ErrorsThatPropagate ==
    /\ ret = "Err" <=> err # ""
    /\ (pc = "done" /\ ret = "Err") =>
          /\ err \in ConfigErrors \cup OutputErrors
          /\ err \in ConfigErrors =>
                /\ \A p \in DOMAIN invoked : invoked[p] = 0
                /\ stats = NewStatistics(Len(json_files))
          /\ err \in OutputErrors =>
                /\ \A i \in DOMAIN json_files : invoked[json_files[i]] = 1
                /\ \A i \in DOMAIN results : results[i] # <<>>
                /\ calls \cap {"open_output_file", "write_error_log"} # {}
          /\ err \in {"OpenOutput", "Write", "Flush"} => ModeOf(args) = "convert"
          /\ err = "LogWrite" => args.log
    /\ (pc = "done" /\ ret = "Ok" /\ ProcessingEntered) =>
          Len(errors) = Cardinality(Failing)

ErrorsThatPropagateWitness ==
    /\ pc = "done"
    /\ ret = "Err"
    /\ err = "OpenOutput"
    /\ Failing = {}
    /\ \A i \in DOMAIN json_files : invoked[json_files[i]] = 1
    /\ json_files # <<>>

\* C10: when collect_json_files yields no file, main returns Ok at once in
\* every mode and write mode: the destination and the error log are as they
\* were, no file is processed and check_output_mode is not called.
EmptyRunTouchesNothing ==
    ("collect_json_files" \in calls /\ json_files = <<>>) =>
        /\ pc = "done"
        /\ ret = "Ok"
        /\ calls = {"collect_json_files"}
        /\ dest \in {[exists |-> FALSE, content |-> <<>>],
                     [exists |-> TRUE, content |-> PriorContent]}
        /\ wbuf = <<>>
        /\ logFile = <<>>
        /\ \A p \in DOMAIN invoked : invoked[p] = 0
        /\ stats = NewStatistics(0)
        /\ report = <<>>

EmptyRunTouchesNothingWitness ==
    /\ "collect_json_files" \in calls
    /\ json_files = <<>>
    /\ dir # <<>>
    /\ ModeOf(args) = "convert"
    /\ args.mode = "Error"
    /\ args.log
    /\ dest.exists
    /\ ret = "Ok"

\* C11: a dry run lists the discovered paths and returns Ok: process_file is
\* never invoked, every Statistics counter stays zero, and neither the
\* destination nor the error log is created or modified, whatever the other
\* arguments are.
DryRunTouchesNothing ==
    /\ ModeOf(args) = "dry_run" =>
          /\ \A p \in DOMAIN invoked : invoked[p] = 0
          /\ \A i \in DOMAIN results : results[i] = <<>>
          /\ stats = NewStatistics(Len(json_files))
          /\ calls \subseteq {"collect_json_files", "print_dry_run"}
          /\ dest \in {[exists |-> FALSE, content |-> <<>>],
                       [exists |-> TRUE, content |-> PriorContent]}
          /\ wbuf = <<>>
          /\ logFile = <<>>
          /\ errors = <<>>
          /\ report = <<>>
    /\ "print_dry_run" \in calls =>
          /\ ModeOf(args) = "dry_run"
          /\ pc = "done"
          /\ ret = "Ok"
    /\ (ModeOf(args) = "dry_run" /\ pc = "done" /\ json_files # <<>>) =>
          "print_dry_run" \in calls

DryRunTouchesNothingWitness ==
    /\ "print_dry_run" \in calls
    /\ pc = "done"
    /\ args.validate_only
    /\ args.log
    /\ args.mode = "Error"
    /\ dest.exists
    /\ Cardinality(Failing) >= 1
    /\ Cardinality(Passing) >= 1
----------------------------------------------------------------------------
(* Field selection, stated over the values themselves *)

Numeral == ("0" :> 0) @@ ("1" :> 1) @@ ("2" :> 2) @@ ("3" :> 3) @@ ("4" :> 4)
             @@ ("5" :> 5) @@ ("6" :> 6) @@ ("7" :> 7) @@ ("8" :> 8) @@ ("9" :> 9)
RECURSIVE Pow10(_)
Pow10(k) == IF k = 0 THEN 1 ELSE 10 * Pow10(k - 1)
RECURSIVE Weighted(_, _)
Weighted(d, i) ==
    IF i > Len(d) THEN 0 ELSE Numeral[d[i]] * Pow10(Len(d) - i) + Weighted(d, i + 1)
\* seg is written as the non-negative integer n: digits, a '+' allowed in front
Denotes(seg, n) ==
    LET d == IF seg # <<>> /\ seg[1] = "+" THEN SubSeq(seg, 2, Len(seg)) ELSE seg
    IN  /\ Len(d) >= 1
        /\ \A i \in DOMAIN d : d[i] \in DOMAIN Numeral
        /\ Weighted(d, 1) = n

\* the values one segment leads to from v: at most one
StepSet(v, seg) ==
    IF v.t = "obj" THEN {v.m[k] : k \in {seg} \cap DOMAIN v.m}
    ELSE IF v.t = "arr" THEN {v.a[i] : i \in {j \in DOMAIN v.a : Denotes(seg, j - 1)}}
    ELSE {}
RECURSIVE ReachSet(_, _)
ReachSet(v, segs) ==
    IF segs = <<>> THEN {v}
    ELSE UNION {ReachSet(w, Tail(segs)) : w \in StepSet(v, Head(segs))}

\* the segments of a path: joined by dots they give the path, none holds a dot
RECURSIVE Joined_by_dots(_)
Joined_by_dots(segs) ==
    IF Len(segs) = 1 THEN segs[1]
    ELSE segs[1] \o <<".">> \o Joined_by_dots(Tail(segs))
AreSegmentsOf(segs, path) ==
    /\ Len(segs) >= 1
    /\ \A i \in DOMAIN segs : \A j \in DOMAIN segs[i] : segs[i][j] # "."
    /\ Joined_by_dots(segs) = path

Called(f) == fout # <<>> /\ fout[1].f = f
\* what a selector resolves to in a value: {} or one value
Resolved(json, field) == ReachSet(json, split(field, "."))
OutputKey(field) == [i \in DOMAIN field |-> IF field[i] = "." THEN "_" ELSE field[i]]

\* C20: get_nested_field walks the dot-separated segments left to right, by
\* key on an object and by the segment read as a non-negative integer on an
\* array; it returns the value reached after the last segment, and None when
\* a key is missing, an index is out of range, a segment against an array is
\* not numeric or a scalar is met before the last segment.
NestedFieldWalk ==
    Called("get_nested_field") =>
        LET path == fin.fields[1]
            segs == split(path, ".")
            got == fout[1].v
        IN  /\ AreSegmentsOf(segs, path)
            /\ Len(got) <= 1
            /\ {got[i] : i \in DOMAIN got} = ReachSet(fin.json, segs)
            /\ (\E k \in 1..Len(segs) :
                    \E w \in ReachSet(fin.json, SubSeq(segs, 1, k - 1)) :
                        \/ w.t = "obj" /\ segs[k] \notin DOMAIN w.m
                        \/ w.t = "arr" /\ ~\E j \in DOMAIN w.a : Denotes(segs[k], j - 1)
                        \/ w.t \notin {"obj", "arr"})
                 <=> got = <<>>

NestedFieldWalkWitness ==
    /\ Called("get_nested_field")
    /\ fin.json.t = "obj"
    /\ fin.fields[1] = <<"a", ".", "+", "1">>
    /\ fout[1].v = <<JStr(<<"x", "\n">>)>>

\* C16 as stated: for an object, extract_fields returns an object holding,
\* for each selector that resolves, the resolved value under the selector's
\* output key, and no other key.
EachResolvedSelectorKept ==
    (Called("extract_fields") /\ fin.json.t = "obj") =>
        LET out == fout[1].v[1]
        IN  /\ out.t = "obj"
            /\ \A i \in DOMAIN fin.fields :
                  \A x \in Resolved(fin.json, fin.fields[i]) :
                      /\ OutputKey(fin.fields[i]) \in DOMAIN out.m
                      /\ out.m[OutputKey(fin.fields[i])] = x
            /\ \A k \in DOMAIN out.m :
                  \E i \in DOMAIN fin.fields :
                      /\ OutputKey(fin.fields[i]) = k
                      /\ Resolved(fin.json, fin.fields[i]) # {}

\* the selectors of the list that resolve and whose output key is k
Resolving(json, fields, k) ==
    {i \in DOMAIN fields : OutputKey(fields[i]) = k /\ Resolved(json, fields[i]) # {}}
Last(I) == CHOOSE i \in I : \A j \in I : j <= i

\* C16: for an object, extract_fields returns an object whose keys are the
\* output keys of the selectors that resolve; a key holds the value resolved
\* by the last selector of the list that has this output key and resolves.
LastResolvedSelectorKept ==
    (Called("extract_fields") /\ fin.json.t = "obj") =>
        LET out == fout[1].v[1]
        IN  /\ out.t = "obj"
            /\ DOMAIN out.m = {OutputKey(fin.fields[i]) :
                                 i \in {j \in DOMAIN fin.fields :
                                          Resolved(fin.json, fin.fields[j]) # {}}}
            /\ \A k \in DOMAIN out.m :
                  out.m[k] \in Resolved(fin.json,
                                   fin.fields[Last(Resolving(fin.json, fin.fields, k))])

LastResolvedSelectorKeptWitness ==
    /\ Called("extract_fields")
    /\ fin.json.t = "obj"
    /\ fin.fields = <<S_a_b, <<"a", ".", "b">>>>
    /\ Resolved(fin.json, fin.fields[1]) = {JNum(1)}
    /\ Resolved(fin.json, fin.fields[2]) = {JStr(<<"x", "\n">>)}
    /\ fout[1].v[1] = JObj([k \in {S_a_b} |-> JStr(<<"x", "\n">>)])

\* C17: for an array, extract_fields returns an array of the same length
\* whose i-th element is extract_fields of the i-th input element; a string,
\* number, boolean or null is returned unchanged.
ArraysElementwise ==
    Called("extract_fields") =>
        LET out == fout[1].v[1]
        IN  /\ fin.json.t = "arr" =>
                /\ out.t = "arr"
                /\ Len(out.a) = Len(fin.json.a)
                /\ \A i \in DOMAIN out.a :
                      out.a[i] = extract_fields(fin.json.a[i], fin.fields)
            /\ fin.json.t \notin {"obj", "arr"} => out = fin.json

ArraysElementwiseWitness ==
    /\ Called("extract_fields")
    /\ fin.json.t = "arr"
    /\ Len(fin.json.a) = 2
    /\ fin.json.a[1] = JNull
    /\ fin.json.a[2].t = "obj"
    /\ fin.fields = <<S_a>>
    /\ fout[1].v[1].a[2] = fin.json.a[2]

----------------------------------------------------------------------------
(* process_file on a file *)

Serialized(r) == Len(r.json_line) = 1 /\ r.error = <<>> /\ r.is_valid
ValidShape(r) == r.json_line = <<>> /\ r.error = <<>> /\ r.is_valid
FailedShape(r) == r.json_line = <<>> /\ Len(r.error) = 1 /\ ~r.is_valid

\* the path process_file_internal takes for the file
Mapped(file, options) == file.size >= options.mmap_threshold
\* the file opens and its parse succeeds
OpensAndParses(file, options) ==
    /\ file.opens
    /\ file.bytes.wf
    /\ Mapped(file, options) => file.maps
HasNewline(line) == \E i \in DOMAIN line : line[i] = "\n"
\* the value that is serialized: the selected fields, or the whole document
OutputValue(file, options) ==
    IF options.fields # <<>> THEN extract_fields(file.bytes.json, options.fields[1])
    ELSE file.bytes.json
NonEmptyContainer(v) ==
    \/ v.t = "obj" /\ DOMAIN v.m # {}
    \/ v.t = "arr" /\ v.a # <<>>

\* C12: every ProcessResult of process_file is serialized, valid or failed
\* (exactly one of the three), and never has both a line and an error.
ThreeShapes ==
    Called("process_file") =>
        LET r == fout[1].r
        IN  /\ Cardinality({sh \in {"serialized", "valid", "failed"} :
                  \/ sh = "serialized" /\ Serialized(r)
                  \/ sh = "valid" /\ ValidShape(r)
                  \/ sh = "failed" /\ FailedShape(r)}) = 1
            /\ ~(r.json_line # <<>> /\ r.error # <<>>)
            /\ r.path = fin.path /\ r.file_size = fin.file.size

ThreeShapesWitness ==
    /\ Called("process_file")
    /\ fin.file.opens /\ ~fin.file.bytes.wf
    /\ FailedShape(fout[1].r)
    /\ fout[1].r.error = <<"ParseError">>

\* C13: with validate_only a file that opens and parses gives the valid
\* shape, and neither field extraction nor serialization is performed;
\* without validate_only the valid shape is never returned.
ValidateOnlyStopsAfterParse ==
    Called("process_file") =>
        /\ (fin.options.validate_only /\ OpensAndParses(fin.file, fin.options)) =>
              /\ ValidShape(fout[1].r)
              /\ fout[1].did = {}
        /\ ~fin.options.validate_only => ~ValidShape(fout[1].r)

ValidateOnlyStopsAfterParseWitness ==
    /\ Called("process_file")
    /\ fin.options.validate_only /\ fin.options.pretty
    /\ fin.options.fields = <<<<S_a>>>>
    /\ OpensAndParses(fin.file, fin.options)
    /\ NonEmptyContainer(fin.file.bytes.json)
    /\ ValidShape(fout[1].r)

\* C14 as stated: no serialized line has an embedded newline, compact or pretty.
NoEmbeddedNewline ==
    (Called("process_file") /\ Serialized(fout[1].r)) =>
        ~HasNewline(fout[1].r.json_line[1])

\* C14: a compact line has no embedded newline, so line and terminator are
\* one line of the destination; a pretty line has embedded newlines exactly
\* when the serialized value is a non-empty object or array.
CompactIsOneLine ==
    (Called("process_file") /\ Serialized(fout[1].r)) =>
        LET line == fout[1].r.json_line[1]
        IN  /\ line # <<>>
            /\ ~fin.options.pretty =>
                  /\ ~HasNewline(line)
                  /\ Cardinality({i \in 1..(Len(line) + 1) :
                                    Append(line, "\n")[i] = "\n"}) = 1
            /\ fin.options.pretty =>
                  (HasNewline(line) <=>
                      NonEmptyContainer(OutputValue(fin.file, fin.options)))

CompactIsOneLineWitness ==
    /\ Called("process_file")
    /\ ~fin.options.pretty /\ fin.options.fields = <<>>
    /\ fin.file.bytes.wf
    /\ fin.file.bytes.json = JObj([k \in {S_a} |-> JStr(<<"x", "\n">>)])
    /\ fout[1].r.json_line =
          <<<<"{", "\"", "a", "\"", ":", "\"", "x", "\\", "n", "\"", "}">>>>

SameOutcome(r1, r2) ==
    /\ r1.json_line = r2.json_line
    /\ r1.error = r2.error
    /\ r1.is_valid = r2.is_valid
WithThreshold(options, t) == [options EXCEPT !.mmap_threshold = t]

----------------------------------------------------------------------------
(* Configuration errors *)

\* C19: a configuration error (thread pool, input root missing or not a
\* directory, invalid pattern, destination exists under error mode) ends the
\* run with an error before process_file is called for any file; an invalid
\* pattern is rejected before file discovery starts.
ConfigErrorsAbortEarly ==
    /\ err \in ConfigErrors =>
          /\ pc = "done" /\ ret = "Err"
          /\ \A p \in DOMAIN invoked : invoked[p] = 0
          /\ \A i \in DOMAIN results : results[i] = <<>>
          /\ \A i \in DOMAIN task : task[i] = "todo"
          /\ stats.success_count + stats.error_count + stats.validation_failed = 0
    /\ err \in {"ThreadPool", "InputNotFound", "NotADirectory", "InvalidPattern"} =>
          /\ "collect_json_files" \notin calls
          /\ dir = <<>> /\ json_files = <<>>
    /\ err = "OutputExists" => ModeOf(args) = "convert" /\ args.mode = "Error"

ConfigErrorsAbortEarlyWitness ==
    /\ err = "InvalidPattern"
    /\ pc = "done" /\ ret = "Err"
    /\ pool > 0
    /\ calls = {}

----------------------------------------------------------------------------
(* Statistics under concurrent callers *)

RECURSIVE IssuedBy(_, _)
\* what the threads 1..n have added to counter c by the calls they completed
IssuedBy(n, c) == IF n = 0 THEN 0 ELSE thr[n].issued[c] + IssuedBy(n - 1, c)

\* C18: no increment or add is lost: whenever no call is in progress every
\* counter reads the sum of what the completed calls of all threads added to
\* it (the number of calls for an increment), and a step that updates one
\* counter leaves every other counter unchanged.
NoLostUpdate ==
    /\ []((thr # <<>> /\ \A t \in DOMAIN thr : thr[t].at = "idle") =>
            \A c \in Counters : stats[c] = IssuedBy(MaxThreads, c))
    /\ [][(thr # <<>> /\ stats' # stats) =>
            \E c \in Counters :
                /\ stats'[c] > stats[c]
                /\ stats' = [stats EXCEPT ![c] = stats'[c]]]_vars

NoLostUpdateWitness ==
    /\ thr # <<>>
    /\ \A t \in DOMAIN thr : thr[t].calls = MaxCalls
    /\ \A t \in DOMAIN thr : thr[t].issued["success_count"] = 1
    /\ \A t \in DOMAIN thr : thr[t].issued["total_bytes_read"] = 2 * (MaxCalls - 1)
    /\ stats.success_count = MaxThreads
    /\ stats.total_bytes_read = MaxThreads * 2 * (MaxCalls - 1)
    /\ stats.error_count = 0

----------------------------------------------------------------------------
(* The failure list *)

\* the failure list is final: the workers have joined (validate-only) or the
\* loop over the results has ended (convert)
ListFinal ==
    \/ pc \in {"val_log", "val_summary", "conv_log", "conv_summary"}
    \/ pc = "conv_loop" /\ next_i > Len(results)
    \/ pc = "done" /\ (report # <<>> \/ err \in {"Flush", "LogWrite"})
ReasonOf(i) ==
    process_file(json_files[i], dir[json_files[i]], ModeOf(args) = "validate_only").error

\* C21: in validate-only and in convert mode the failure list holds one
\* (path, reason) entry per failed file and none for a successful file,
\* whatever the order in which the workers fail; its length is
\* validation_failed (validate-only) or error_count (convert), and the error
\* log is written from this list.
FailureListExact ==
    /\ \A j, k \in DOMAIN errors : errors[j][1] = errors[k][1] => j = k
    /\ \A j \in DOMAIN errors :
          \E i \in Failing : /\ errors[j][1] = json_files[i]
                             /\ <<errors[j][2]>> = ReasonOf(i)
    /\ Len(errors) <= FailureCounter
    /\ ListFinal =>
          /\ {errors[j][1] : j \in DOMAIN errors} = {json_files[i] : i \in Failing}
          /\ Len(errors) = FailureCounter
          /\ Len(errors) = Cardinality(Failing)
    /\ logFile # <<>> => logFile[1] = errors /\ Len(logFile[1]) = FailureCounter

FailureListExactWitness ==
    /\ pc = "done" /\ ret = "Ok"
    /\ ModeOf(args) = "validate_only"
    /\ pool = 2
    /\ Len(errors) = 2
    /\ errors[1][1] > errors[2][1]
    /\ Cardinality(Passing) = 1
    /\ logFile = <<errors>>
    /\ stats.validation_failed = 2

----------------------------------------------------------------------------
(* Reading the statistics *)

\* C22: the statistics are read for the summary only after every worker has
\* finished: when the summary is rendered no closure is running or pending,
\* the rendered counts are the counters' values and account for every
\* discovered file, and no counter changes afterwards.
SummaryReadsFinalCounts ==
    /\ [](report # <<>> =>
            /\ \A i \in DOMAIN task : task[i] = "done"
            /\ \A i \in DOMAIN results : results[i] # <<>>
            /\ report[1] = stats
            /\ report[1].success_count + FailureCounter = report[1].total_files
            /\ report[1].total_files = Len(json_files))
    /\ [][report # <<>> => stats' = stats]_vars
    /\ [][(report = <<>> /\ report' # <<>>) =>
            /\ report' = <<stats>>
            /\ \A i \in DOMAIN task : task[i] = "done"]_vars

SummaryReadsFinalCountsWitness ==
    /\ report # <<>>
    /\ ModeOf(args) = "validate_only"
    /\ pool = 2
    /\ report[1].success_count = 1
    /\ report[1].validation_failed = 2
    /\ report[1].total_bytes_read > 0

----------------------------------------------------------------------------
(* Order of the output *)

\* the position of a path in the discovered list
Pos(p) == CHOOSE i \in DOMAIN json_files : json_files[i] = p
\* the paths whose lines a chunk sequence holds, in the order of the lines
LinePaths(c) ==
    LET bodies == SelectSeq(c, LAMBDA ch : ch.k = "body")
    IN  [j \in DOMAIN bodies |-> bodies[j].src]

\* C23: in convert mode the lines the run puts into the destination are in
\* discovery order, in whatever order the workers finish; after a run that
\* returned Ok they are the lines of the successful files in that order.
LinesInDiscoveryOrder ==
    /\ "open_output_file" \in calls =>
          LET ps == LinePaths(Emitted)
          IN  \A j, k \in DOMAIN ps : j < k => Pos(ps[j]) < Pos(ps[k])
    /\ (pc = "done" /\ ret = "Ok" /\ ModeOf(args) = "convert" /\ json_files # <<>>) =>
          LinePaths(OnDisk) =
              SelectSeq(json_files, LAMBDA p : Parses(dir[p]))

LinesInDiscoveryOrderWitness ==
    /\ pc = "done" /\ ret = "Ok"
    /\ ModeOf(args) = "convert"
    /\ pool = 2
    /\ args.mode = "Append" /\ atOpen # <<>>
    /\ Len(json_files) = 3
    /\ LinePaths(OnDisk) = <<json_files[1], json_files[3]>>
    /\ Len(errors) = 1

----------------------------------------------------------------------------
(* The run modes *)

ModeCalls == {"print_dry_run", "run_validation_mode", "run_conversion_mode"}
PastDispatch == pc \notin {"threads", "validate_input", "pattern", "collect", "mode"}

\* C24: a run executes one mode, chosen by precedence: dry-run if dry_run is
\* set (also with validate_only), else validate-only if validate_only is
\* set, else convert; dry-run and validate-only never check the write mode,
\* never create, truncate or write the destination, and leave bytes_written 0.
OneModeByPrecedence ==
    /\ [](/\ Cardinality(calls \cap ModeCalls) <= 1
          /\ (PastDispatch /\ json_files # <<>>) =>
                Cardinality(calls \cap ModeCalls) = 1
          /\ "print_dry_run" \in calls <=>
                (PastDispatch /\ json_files # <<>> /\ args.dry_run)
          /\ "run_validation_mode" \in calls <=>
                (PastDispatch /\ json_files # <<>>
                    /\ ~args.dry_run /\ args.validate_only)
          /\ "run_conversion_mode" \in calls <=>
                (PastDispatch /\ json_files # <<>>
                    /\ ~args.dry_run /\ ~args.validate_only)
          /\ (args.dry_run \/ args.validate_only) =>
                /\ calls \cap {"check_output_mode", "exists", "open_output_file",
                               "create", "open_append", "write"} = {}
                /\ wbuf = <<>> /\ atOpen = <<>>
                /\ stats.total_bytes_written = 0
                /\ err # "OutputExists")
    /\ [][(args.dry_run \/ args.validate_only) => dest' = dest]_vars

OneModeByPrecedenceWitness ==
    /\ pc = "done" /\ ret = "Ok"
    /\ "run_validation_mode" \in calls
    /\ args.validate_only /\ ~args.dry_run
    /\ args.mode = "Error" /\ dest = [exists |-> TRUE, content |-> PriorContent]
    /\ stats.success_count = 2
    /\ stats.total_bytes_read > 0

----------------------------------------------------------------------------
(* When the destination is opened *)

AllReturned ==
    /\ \A i \in DOMAIN results : results[i] # <<>>
    /\ \A i \in DOMAIN json_files : invoked[json_files[i]] = 1
    /\ Active = {}

\* C25: in convert mode the run neither creates nor modifies the destination
\* before process_file has returned for every discovered file; the existence
\* check of error mode is made once, before any file is processed, and not
\* again at the open, which therefore creates or truncates (or opens for
\* append) the destination as it then is, also when another process created
\* it in the meantime.
OpenedAfterProcessing ==
    /\ [](/\ calls \cap {"open_output_file", "create", "open_append", "write"} # {}
                => AllReturned
          /\ err = "OutputExists" =>
                /\ ~touched
                /\ \A p \in DOMAIN invoked : invoked[p] = 0
                /\ "open_output_file" \notin calls
          /\ (touched /\ calls \cap {"create", "open_append"} # {}) =>
                /\ atOpen = ForeignContent
                /\ IsPrefix(OpenedContent(args.mode, ForeignContent), dest.content))
    /\ [][(dest' # dest /\ touched' = touched) =>
            (AllReturned /\ pc \in {"conv_open", "conv_loop"})]_vars
    /\ [][("exists" \in calls' /\ "exists" \notin calls) =>
            (pc = "mode" /\ \A p \in DOMAIN invoked : invoked[p] = 0)]_vars
    /\ [][(pc = "conv_open" /\ pc' = "done") => err' = "OpenOutput"]_vars

OpenedAfterProcessingWitness ==
    /\ pc = "done" /\ ret = "Ok"
    /\ args.mode = "Error"
    /\ touched
    /\ "create" \in calls /\ "exists" \in calls
    /\ atOpen = ForeignContent
    /\ Cardinality(Passing) = 1 /\ Cardinality(Failing) = 1
    /\ Len(dest.content) = 2
    /\ dest.content[1].src \in Range(json_files)

====
